---- MODULE Spec2Model ----
(***************************************************************************)
(* Deployment entry points of renglo/system: the Lambda adapter            *)
(* (lambda_handler.py), the dev-server bootstrap (main.py) and the         *)
(* smoke-test harness (test_app.py).  The external library (create_app,    *)
(* get_config_for_lambda, load_env_config, the application handle) is an   *)
(* environment whose outcomes are drawn nondeterministically.              *)
(***************************************************************************)
EXTENDS Integers, Sequences, FiniteSets, TLC

VARIABLES
    \* ---- lambda_handler.py ----
    lpc,            \* "init" | "ready" | "failed": module load position
    configCalls,    \* number of get_config_for_lambda() calls so far
    createCalls,    \* number of create_app() calls so far
    app,            \* module-level handle: 0 = not built, n = n-th handle built
    nInvocations,   \* lambda_handler invocations so far
    event,          \* event of the last invocation
    appBeh,         \* what the handle's app_context()/logger did in the last invocation
    outcome,        \* what the last invocation gave its caller
    usedHandle,     \* handle the last invocation ran against
    \* ---- main.py ----
    env,            \* os.environ
    envConfig,      \* the env_config module as the import system sees it
    credsFile,      \* os.path.exists('~/.aws/credentials')
    regionLog,      \* one record per setup_aws_region call
    mpc,            \* position inside main()
    callLog,        \* calls main() has made, in order
    credsResult,    \* what setup_aws_credentials returned / logged
    mainExc,        \* exception that ended main(), or NoExc
    \* ---- test_app.py ----
    hpc,            \* position inside the harness main()
    results,        \* check results gathered so far, in dict order
    missing,        \* `missing` list of test_configuration
    reported,       \* the "passed/total" line, once printed
    exitStatus,     \* process exit status, -1 while running
    hExc            \* exception that ended the harness, or NoExc

lambdaVars == <<lpc, configCalls, createCalls, app, nInvocations, event, appBeh,
                outcome, usedHandle>>
bootVars == <<env, envConfig, credsFile, regionLog, mpc, callLog, credsResult, mainExc>>
harnessVars == <<hpc, results, missing, reported, exitStatus, hExc>>
vars == <<lambdaVars, bootVars, harnessVars>>

(***************************************************************************)
(* Bounds of the model.                                                    *)
(***************************************************************************)
MaxInvocations == 2
MaxRegionCalls == 3

(***************************************************************************)
(* Python values, as far as the entry points tell them apart.              *)
(***************************************************************************)
PyStr(s) == [t |-> "str", s |-> s]
PyNone == [t |-> "none", s |-> ""]
PyInt == [t |-> "int", s |-> "5"]
PyTuple == [t |-> "tuple", s |-> "a,b"]
PySet == [t |-> "set", s |-> "a"]
Absent == [t |-> "absent", s |-> ""]

\* type(v).__name__
PyTypeName(v) == IF v.t = "none" THEN "NoneType" ELSE v.t

Exc(type, msg) == [type |-> type, msg |-> msg]
NoExc == Exc("", "")

(***************************************************************************)
(* json.dumps / json.loads on those values.  A JSON text is kept as its    *)
(* syntax tree: a string, null, a number, an array.                        *)
(***************************************************************************)
JAbsent == [j |-> "absent", s |-> ""]
JString(s) == [j |-> "string", s |-> s]

JsonEncodable(v) == v.t \in {"str", "none", "int", "tuple", "list"}

JsonDumps(v) ==
    CASE v.t = "str" -> [j |-> "string", s |-> v.s]
      [] v.t = "none" -> [j |-> "null", s |-> ""]
      [] v.t = "int" -> [j |-> "number", s |-> v.s]
      [] v.t \in {"tuple", "list"} -> [j |-> "array", s |-> v.s]

JsonLoads(j) ==
    CASE j.j = "string" -> [t |-> "str", s |-> j.s]
      [] j.j = "null" -> [t |-> "none", s |-> ""]
      [] j.j = "number" -> [t |-> "int", s |-> j.s]
      [] j.j = "array" -> [t |-> "list", s |-> j.s]
      [] j.j = "absent" -> Absent

JsonTypeError(v) == Exc("TypeError", "Object of type " \o PyTypeName(v) \o " is not JSON serializable")

(***************************************************************************)
(* lambda_handler.py                                                       *)
(***************************************************************************)
EventKeys == {"httpMethod", "path", "body"}
\* Values an event may hold under a key: the strings of the local test, None,
\* a tuple (JSON-encodable, decoded as a list) and a set (not JSON-encodable).
EventValues(key) ==
    CASE key = "httpMethod" -> {PyStr("GET"), PyStr("POST"), PyNone, PyTuple, PySet}
      [] key = "path" -> {PyStr("/ping"), PyNone, PyTuple, PySet}
      [] key = "body" -> {PyStr("{}"), PySet}
NoItems == [k \in EventKeys |-> Absent]
\* An event mapping; a key the mapping lacks maps to Absent.
Mapping(items) == [kind |-> "dict", items |-> items]
\* An event that is not a mapping (None, a list): it has no .get.
NonMapping(kind) == [kind |-> kind, items |-> NoItems]
Events ==
    {Mapping([k \in EventKeys |->
                 CASE k = "httpMethod" -> m [] k = "path" -> p [] k = "body" -> b]) :
        m \in EventValues("httpMethod") \cup {Absent},
        p \in EventValues("path") \cup {Absent},
        b \in EventValues("body") \cup {Absent}}
        \cup {NonMapping("NoneType"), NonMapping("list")}
NoEvent == NonMapping("")

\* What the external handle does when asked: does app_context() raise on entry,
\* on exit, does logger.info raise, does logger.error raise.
AppBehaviours ==
    [ctxEnterRaises : BOOLEAN, ctxExitRaises : BOOLEAN,
     infoRaises : BOOLEAN, errorRaises : BOOLEAN]
WellBehaved ==
    [ctxEnterRaises |-> FALSE, ctxExitRaises |-> FALSE,
     infoRaises |-> FALSE, errorRaises |-> FALSE]

BodyKeys == {"message", "path", "method", "error"}
NoBody == [k \in BodyKeys |-> JAbsent]
NoResponse == [statusCode |-> 0, headers |-> {}, body |-> NoBody]

Returned(resp) == [kind |-> "return", response |-> resp, exc |-> NoExc]
Raised(e) == [kind |-> "raise", response |-> NoResponse, exc |-> e]
NoOutcome == [kind |-> "none", response |-> NoResponse, exc |-> NoExc]

\* event.get(key, default)
EventGet(ev, key, default) ==
    IF ev.items[key] = Absent THEN default ELSE ev.items[key]

\* Mutant: 'path' and 'method' of the body swapped.
SuccessResponseSwapped(path, http_method) ==
    [statusCode |-> 200,
     headers |-> {"Content-Type", "Access-Control-Allow-Origin"},
     body |-> [NoBody EXCEPT !["message"] = JString("Success"),
                             !["path"] = JsonDumps(http_method),
                             !["method"] = JsonDumps(path)]]

\* The 200 response of the try block.
SuccessResponse(path, http_method) ==
    [statusCode |-> 200,
     headers |-> {"Content-Type", "Access-Control-Allow-Origin"},
     body |-> [NoBody EXCEPT !["message"] = JString("Success"),
                             !["path"] = JsonDumps(path),
                             !["method"] = JsonDumps(http_method)]]

\* Mutant: the except block answers with a fixed text instead of str(e).
ErrorResponseGeneric(e) ==
    [statusCode |-> 500,
     headers |-> {"Content-Type"},
     body |-> [NoBody EXCEPT !["error"] = JString("Internal server error")]]

\* The 500 response of the except block.
ErrorResponse(e) ==
    [statusCode |-> 500,
     headers |-> {"Content-Type"},
     body |-> [NoBody EXCEPT !["error"] = JString(e.msg)]]

\* The try block: either the response it returns or the exception it raises.
TryBlock(ev, beh) ==
    IF ev.kind # "dict"
    THEN Raised(Exc("AttributeError", "'" \o ev.kind \o "' object has no attribute 'get'"))
    ELSE LET http_method == EventGet(ev, "httpMethod", PyStr("GET"))
             path == EventGet(ev, "path", PyStr("/"))
         IN  IF beh.infoRaises THEN Raised(Exc("RuntimeError", "logger.info failed"))
             ELSE IF ~JsonEncodable(path) THEN Raised(JsonTypeError(path))
             ELSE IF ~JsonEncodable(http_method) THEN Raised(JsonTypeError(http_method))
             ELSE Returned(SuccessResponse(path, http_method))

\* The except block for an exception e of the try block.
ExceptBlock(e, beh) ==
    IF beh.errorRaises THEN Raised(Exc("RuntimeError", "logger.error failed"))
    ELSE Returned(ErrorResponse(e))

\* The with statement around both: what the caller of lambda_handler gets.
HandlerOutcome(ev, beh) ==
    IF beh.ctxEnterRaises THEN Raised(Exc("RuntimeError", "app_context failed"))
    ELSE LET t == TryBlock(ev, beh)
             inner == IF t.kind = "raise" THEN ExceptBlock(t.exc, beh) ELSE t
         IN  IF beh.ctxExitRaises
             THEN Raised(Exc("RuntimeError", "app_context exit failed"))
             ELSE inner

\* The handle an invocation runs against: the module-level global.
HandlerApp == app

LambdaInit ==
    /\ lpc = "init"
    /\ configCalls = 0
    /\ createCalls = 0
    /\ app = 0
    /\ nInvocations = 0
    /\ event = NoEvent
    /\ appBeh = WellBehaved
    /\ outcome = NoOutcome
    /\ usedHandle = 0

\* Module load: config = get_config_for_lambda(); app = create_app(config=config)
LoadModule ==
    /\ lpc = "init"
    /\ configCalls' = configCalls + 1
    /\ \/ /\ createCalls' = createCalls + 1
          /\ app' = createCalls + 1
          /\ lpc' = "ready"
       \/ \* get_config_for_lambda() raised: the import fails, no handler exists
          /\ createCalls' = createCalls
          /\ app' = app
          /\ lpc' = "failed"
    /\ UNCHANGED <<nInvocations, event, appBeh, outcome, usedHandle, bootVars, harnessVars>>

\* Mutant: the handler builds its own handle on every invocation.
LambdaHandlerRebuilds ==
    /\ lpc = "ready"
    /\ nInvocations < MaxInvocations
    /\ \E ev \in Events, beh \in AppBehaviours :
        /\ event' = ev
        /\ appBeh' = beh
        /\ outcome' = HandlerOutcome(ev, beh)
    /\ createCalls' = createCalls + 1
    /\ usedHandle' = createCalls + 1
    /\ nInvocations' = nInvocations + 1
    /\ UNCHANGED <<lpc, configCalls, app, bootVars, harnessVars>>

\* One invocation of lambda_handler(event, context).
LambdaHandler ==
    /\ lpc = "ready"
    /\ nInvocations < MaxInvocations
    /\ \E ev \in Events, beh \in AppBehaviours :
        /\ event' = ev
        /\ appBeh' = beh
        /\ outcome' = HandlerOutcome(ev, beh)
    /\ usedHandle' = HandlerApp
    /\ nInvocations' = nInvocations + 1
    /\ UNCHANGED <<lpc, configCalls, createCalls, app, bootVars, harnessVars>>

LambdaNext == LoadModule \/ LambdaHandler

(***************************************************************************)
(* main.py                                                                 *)
(***************************************************************************)
EnvVars == {"AWS_PROFILE", "AWS_ACCESS_KEY_ID", "AWS_SECRET_ACCESS_KEY",
            "AWS_DEFAULT_REGION", "AWS_REGION", "PORT"}
\* os.getenv(name) of a variable that is not set (None in Python).
Unset == "<unset>"
\* Python truthiness of what os.getenv gives: None and '' are falsy.
Truthy(v) == v # Unset /\ v # ""

EnvValues(name) ==
    CASE name = "AWS_PROFILE" -> {Unset, "dev"}
      [] name = "AWS_ACCESS_KEY_ID" -> {Unset, "AKIA"}
      [] name = "AWS_SECRET_ACCESS_KEY" -> {Unset, "secret"}
      [] name = "AWS_DEFAULT_REGION" -> {Unset, "", "eu-west-1"}
      [] name = "AWS_REGION" -> {Unset, "", "ap-south-1"}
      [] name = "PORT" -> {Unset, "8080", "http"}
Environments ==
    {[n \in EnvVars |->
        CASE n = "AWS_PROFILE" -> p
          [] n = "AWS_ACCESS_KEY_ID" -> k
          [] n = "AWS_SECRET_ACCESS_KEY" -> s
          [] n = "AWS_DEFAULT_REGION" -> d
          [] n = "AWS_REGION" -> r
          [] n = "PORT" -> t] :
        p \in EnvValues("AWS_PROFILE"), k \in EnvValues("AWS_ACCESS_KEY_ID"),
        s \in EnvValues("AWS_SECRET_ACCESS_KEY"), d \in EnvValues("AWS_DEFAULT_REGION"),
        r \in EnvValues("AWS_REGION"), t \in EnvValues("PORT")}

\* env_config as `from env_config import AWS_REGION` finds it: no such module,
\* a module without the name, or a module with the name bound to a value.
NoModule == [module |-> FALSE, value |-> Absent]
EnvConfigs ==
    {NoModule, [module |-> TRUE, value |-> Absent]}
        \cup {[module |-> TRUE, value |-> v] : v \in {PyStr("eu-central-1"), PyStr(""), PyNone}}

DefaultRegion == "us-east-1"
RegionReturned(r) == [kind |-> "return", value |-> r, exc |-> NoExc]
RegionRaised(e) == [kind |-> "raise", value |-> "", exc |-> e]

\* Mutant: AWS_REGION is consulted before AWS_DEFAULT_REGION.
RegionCallPrefersRegion(e, cfg) ==
    LET aws_region == IF Truthy(e["AWS_REGION"])
                      THEN e["AWS_REGION"] ELSE e["AWS_DEFAULT_REGION"]
    IN  IF Truthy(aws_region)
        THEN [env |-> e, result |-> RegionReturned(aws_region),
              imported |-> FALSE, wrote |-> FALSE]
        ELSE [env |-> [e EXCEPT !["AWS_DEFAULT_REGION"] = DefaultRegion],
              result |-> RegionReturned(DefaultRegion),
              imported |-> TRUE, wrote |-> TRUE]

\* Mutant: the region found in the environment is assigned back on every call.
RegionCallAlwaysPublishes(e, cfg) ==
    LET aws_region == IF Truthy(e["AWS_DEFAULT_REGION"])
                      THEN e["AWS_DEFAULT_REGION"] ELSE e["AWS_REGION"]
    IN  IF Truthy(aws_region)
        THEN [env |-> [e EXCEPT !["AWS_DEFAULT_REGION"] = aws_region],
              result |-> RegionReturned(aws_region),
              imported |-> FALSE, wrote |-> TRUE]
        ELSE [env |-> [e EXCEPT !["AWS_DEFAULT_REGION"] = DefaultRegion],
              result |-> RegionReturned(DefaultRegion),
              imported |-> TRUE, wrote |-> TRUE]

\* One call of setup_aws_region() on environment e and env_config cfg:
\* the environment it leaves, what it returns or raises, whether it ran the
\* import and whether it assigned os.environ['AWS_DEFAULT_REGION'].
RegionCall(e, cfg) ==
    LET aws_region == IF Truthy(e["AWS_DEFAULT_REGION"])
                      THEN e["AWS_DEFAULT_REGION"] ELSE e["AWS_REGION"]
    IN  IF Truthy(aws_region)
        THEN [env |-> e, result |-> RegionReturned(aws_region),
              imported |-> FALSE, wrote |-> FALSE]
        ELSE IF cfg.module /\ cfg.value # Absent
        THEN IF cfg.value.t = "str"
             THEN [env |-> [e EXCEPT !["AWS_DEFAULT_REGION"] = cfg.value.s],
                   result |-> RegionReturned(cfg.value.s),
                   imported |-> TRUE, wrote |-> TRUE]
             ELSE \* os.environ[...] = <not a str> raises TypeError, which the
                  \* except (ImportError, AttributeError) clause does not catch
                  [env |-> e,
                   result |-> RegionRaised(Exc("TypeError", "str expected, not " \o PyTypeName(cfg.value))),
                   imported |-> TRUE, wrote |-> FALSE]
        ELSE \* ImportError: no module, or the module lacks the name
             [env |-> [e EXCEPT !["AWS_DEFAULT_REGION"] = DefaultRegion],
              result |-> RegionReturned(DefaultRegion),
              imported |-> TRUE, wrote |-> TRUE]

\* setup_aws_credentials(): the source it settles on, and its return value.
CredentialSource(e, fileExists) ==
    IF Truthy(e["AWS_PROFILE"]) THEN "profile"
    ELSE IF Truthy(e["AWS_ACCESS_KEY_ID"]) /\ Truthy(e["AWS_SECRET_ACCESS_KEY"]) THEN "keys"
    ELSE IF fileExists THEN "file"
    ELSE "none"

CredentialsCall(e, fileExists) ==
    LET src == CredentialSource(e, fileExists)
    IN  [returned |-> src # "none", source |-> src, warned |-> src = "none", raised |-> FALSE]
NoCreds == [returned |-> FALSE, source |-> "", warned |-> FALSE, raised |-> FALSE]

\* int(os.getenv('PORT', 5001)) succeeds: the default, or a string of digits
PortParses(e) == e["PORT"] \in {Unset, "8080"}

BootInit ==
    /\ env \in Environments
    /\ envConfig \in EnvConfigs
    /\ credsFile \in BOOLEAN
    /\ regionLog = <<>>
    /\ mpc = "start"
    /\ callLog = <<>>
    /\ credsResult = NoCreds
    /\ mainExc = NoExc

\* A call of setup_aws_region() in the process.
SetupAwsRegion ==
    /\ Len(regionLog) < MaxRegionCalls
    /\ LET c == RegionCall(env, envConfig)
       IN  /\ env' = c.env
           /\ regionLog' = Append(regionLog,
                  [before |-> env, after |-> c.env, result |-> c.result,
                   imported |-> c.imported, wrote |-> c.wrote])
    /\ UNCHANGED <<envConfig, credsFile, mpc, callLog, credsResult, mainExc, lambdaVars, harnessVars>>

RegionNext == SetupAwsRegion

\* Mutant: main() gives up when no credentials are found.
MainCredentialsFatal ==
    /\ mpc = "start"
    /\ credsResult' = CredentialsCall(env, credsFile)
    /\ callLog' = Append(callLog, "setup_aws_credentials")
    /\ mpc' = IF CredentialsCall(env, credsFile).returned THEN "region" ELSE "crashed"
    /\ mainExc' = IF CredentialsCall(env, credsFile).returned THEN mainExc
                  ELSE Exc("SystemExit", "no credentials")
    /\ UNCHANGED <<env, envConfig, credsFile, regionLog, lambdaVars, harnessVars>>

\* main(): setup_aws_credentials()
MainCredentials ==
    /\ mpc = "start"
    /\ credsResult' = CredentialsCall(env, credsFile)
    /\ callLog' = Append(callLog, "setup_aws_credentials")
    /\ mpc' = "region"
    /\ UNCHANGED <<env, envConfig, credsFile, regionLog, mainExc, lambdaVars, harnessVars>>

\* main(): setup_aws_region()
MainRegion ==
    /\ mpc = "region"
    /\ callLog' = Append(callLog, "setup_aws_region")
    /\ LET c == RegionCall(env, envConfig)
       IN  /\ env' = c.env
           /\ regionLog' = Append(regionLog,
                  [before |-> env, after |-> c.env, result |-> c.result,
                   imported |-> c.imported, wrote |-> c.wrote])
           /\ \/ /\ c.result.kind = "return"
                 /\ mpc' = "create"
                 /\ mainExc' = mainExc
              \/ /\ c.result.kind = "raise"
                 /\ mpc' = "crashed"
                 /\ mainExc' = c.result.exc
    /\ UNCHANGED <<envConfig, credsFile, credsResult, lambdaVars, harnessVars>>

\* main(): app = create_app(); the external factory builds the handle or raises.
MainCreateApp ==
    /\ mpc = "create"
    /\ callLog' = Append(callLog, "create_app")
    /\ \/ /\ mpc' = "port"
          /\ mainExc' = mainExc
       \/ /\ mpc' = "crashed"
          /\ mainExc' = Exc("Exception", "create_app failed")
    /\ UNCHANGED <<env, envConfig, credsFile, regionLog, credsResult, lambdaVars, harnessVars>>

\* main(): port = int(os.getenv('PORT', 5001)); app.run(...)
MainRun ==
    /\ mpc = "port"
    /\ \/ /\ PortParses(env)
          /\ callLog' = Append(callLog, "app.run")
          /\ mpc' = "serving"
          /\ mainExc' = mainExc
       \/ /\ ~PortParses(env)
          /\ callLog' = callLog
          /\ mpc' = "crashed"
          /\ mainExc' = Exc("ValueError", "invalid literal for int() with base 10")
    /\ UNCHANGED <<env, envConfig, credsFile, regionLog, credsResult, lambdaVars, harnessVars>>

MainNext == MainCredentials \/ MainRegion \/ MainCreateApp \/ MainRun

(***************************************************************************)
(* test_app.py                                                             *)
(***************************************************************************)
required_configs ==
    <<"DYNAMODB_ENTITY_TABLE", "DYNAMODB_CHAT_TABLE", "COGNITO_REGION",
      "COGNITO_USERPOOL_ID", "OPENAI_API_KEY", "TANK_BASE_URL">>
RequiredKeys == {required_configs[i] : i \in DOMAIN required_configs}
Placeholder == PyStr("your-secret-key-here")
\* What load_env_config() may hold for a key: nothing, '', the placeholder,
\* a real string, or a value that is not a string.
ConfigValues == {Absent, PyStr(""), Placeholder, PyStr("real-value"), PyInt}
Configs == [RequiredKeys -> ConfigValues]

PyTruthy(v) == ~(v.t = "none" \/ (v.t = "str" /\ v.s = ""))

\* The condition of line 36: key in config and config[key] and config[key] != placeholder
ProperlySet(config, key) ==
    /\ config[key] # Absent
    /\ PyTruthy(config[key])
    /\ config[key] # Placeholder

\* config[key][:20] of line 37 is defined for strings, not for numbers
Sliceable(v) == v.t \in {"str", "list", "tuple"}

RECURSIVE ConfigLoop(_, _, _)
\* The for loop of test_configuration from position i on, `miss` gathered so far:
\* the final `missing` list, or the TypeError the print of line 37 raises.
ConfigLoop(config, i, miss) ==
    IF i > Len(required_configs) THEN [raised |-> FALSE, missing |-> miss]
    ELSE LET key == required_configs[i]
         IN  IF ProperlySet(config, key)
             THEN IF Sliceable(config[key])
                  THEN ConfigLoop(config, i + 1, miss)
                  ELSE [raised |-> TRUE, missing |-> miss]
             ELSE ConfigLoop(config, i + 1, Append(miss, key))

HarnessInit ==
    /\ hpc = "Configuration"
    /\ results = <<>>
    /\ missing = <<>>
    /\ reported = [printed |-> FALSE, passed |-> 0, total |-> 0]
    /\ exitStatus = -1
    /\ hExc = NoExc

\* An exception main() does not catch: traceback, exit status 1.
HarnessCrash(e) ==
    /\ hpc' = "exited"
    /\ exitStatus' = 1
    /\ hExc' = e
    /\ UNCHANGED <<results, reported>>

\* results['Configuration'] = test_configuration()
TestConfiguration ==
    /\ hpc = "Configuration"
    /\ UNCHANGED <<lambdaVars, bootVars>>
    /\ \/ \* load_env_config() raises
          /\ missing' = missing
          /\ HarnessCrash(Exc("Exception", "load_env_config failed"))
       \/ \E config \in Configs :
            LET r == ConfigLoop(config, 1, <<>>)
            IN  /\ missing' = r.missing
                /\ \/ /\ r.raised
                      /\ HarnessCrash(Exc("TypeError", "'int' object is not subscriptable"))
                   \/ /\ ~r.raised
                      /\ results' = Append(results, Len(r.missing) = 0)
                      /\ hpc' = "App Creation"
                      /\ UNCHANGED <<reported, exitStatus, hExc>>

\* A check whose whole body is inside try/except Exception: True, or False
\* when the library raises.
GuardedCheck(here, next) ==
    /\ hpc = here
    /\ \E ok \in BOOLEAN : results' = Append(results, ok)
    /\ hpc' = next
    /\ UNCHANGED <<missing, reported, exitStatus, hExc, lambdaVars, bootVars>>

TestAppCreation == GuardedCheck("App Creation", "Routes")
TestRoutes == GuardedCheck("Routes", "Controllers")
TestControllers == GuardedCheck("Controllers", "Health Check")

\* test_health_endpoint: True on status 200, False on another status or an exception
TestHealthEndpoint ==
    /\ hpc = "Health Check"
    /\ \E status \in {"200", "other", "exception"} :
         results' = Append(results, status = "200")
    /\ hpc' = "summary"
    /\ UNCHANGED <<missing, reported, exitStatus, hExc, lambdaVars, bootVars>>

\* The entries of the results dict of main()
NumChecks == 5

\* passed = sum(1 for v in results.values() if v)
Passed(res) == Cardinality({i \in DOMAIN res : res[i]})

\* Mutant: the summary prints the failure text and forgets sys.exit(1).
SummaryNoExit ==
    /\ hpc = "summary"
    /\ reported' = [printed |-> TRUE, passed |-> Passed(results), total |-> Len(results)]
    /\ exitStatus' = 0
    /\ hpc' = "exited"
    /\ UNCHANGED <<results, missing, hExc, lambdaVars, bootVars>>

\* The summary and the exit of main()
Summary ==
    /\ hpc = "summary"
    /\ LET passed == Passed(results)
           total == Len(results)
       IN  /\ reported' = [printed |-> TRUE, passed |-> passed, total |-> total]
           /\ exitStatus' = IF passed = total THEN 0 ELSE 1
    /\ hpc' = "exited"
    /\ UNCHANGED <<results, missing, hExc, lambdaVars, bootVars>>

HarnessNext ==
    \/ TestConfiguration
    \/ TestAppCreation
    \/ TestRoutes
    \/ TestControllers
    \/ TestHealthEndpoint
    \/ Summary

(***************************************************************************)
(* Specifications: one per entry point, the others at rest.                *)
(***************************************************************************)
BootRest ==
    /\ env = [n \in EnvVars |-> Unset]
    /\ envConfig = NoModule
    /\ credsFile = FALSE
    /\ regionLog = <<>>
    /\ mpc = "start"
    /\ callLog = <<>>
    /\ credsResult = NoCreds
    /\ mainExc = NoExc

InitLambda == LambdaInit /\ BootRest /\ HarnessInit
InitBoot == LambdaInit /\ BootInit /\ HarnessInit
InitHarness == LambdaInit /\ BootRest /\ HarnessInit

SpecLambda == InitLambda /\ [][LambdaNext]_vars

SpecRegion == InitBoot /\ [][RegionNext]_vars

SpecMain == InitBoot /\ [][MainNext]_vars

SpecHarness == InitHarness /\ [][HarnessNext]_vars

Init == InitBoot
Next == LambdaNext \/ MainNext \/ HarnessNext
Spec == Init /\ [][Next]_vars

(***************************************************************************)
(* Claims about lambda_handler.py, under SpecLambda.                       *)
(***************************************************************************)
Invoked == nInvocations > 0
Status == outcome.response.statusCode
Body == outcome.response.body
\* The values the handler reads from a mapping event
PathOf(ev) == IF ev.items["path"] = Absent THEN PyStr("/") ELSE ev.items["path"]
MethodOf(ev) == IF ev.items["httpMethod"] = Absent THEN PyStr("GET") ELSE ev.items["httpMethod"]
AppRaises(beh) ==
    beh.ctxEnterRaises \/ beh.ctxExitRaises \/ beh.infoRaises \/ beh.errorRaises
\* The events and apps C1 lists
C1_Case(ev, beh) ==
    \/ ev.kind # "dict"
    \/ \E k \in EventKeys : ev.items[k] = Absent
    \/ \E k \in EventKeys : ev.items[k] # Absent /\ ~JsonEncodable(ev.items[k])
    \/ AppRaises(beh)
\* An exception is raised inside the try block
TryFails(ev, beh) ==
    \/ ev.kind # "dict"
    \/ beh.infoRaises
    \/ ~JsonEncodable(PathOf(ev))
    \/ ~JsonEncodable(MethodOf(ev))
\* str(e) of the exception the try block raises
TryMessage(ev, beh) ==
    IF ev.kind # "dict" THEN "'" \o ev.kind \o "' object has no attribute 'get'"
    ELSE IF beh.infoRaises THEN "logger.info failed"
    ELSE IF ~JsonEncodable(PathOf(ev))
         THEN "Object of type " \o PathOf(ev).t \o " is not JSON serializable"
    ELSE "Object of type " \o MethodOf(ev).t \o " is not JSON serializable"

PingEvent ==
    Mapping([k \in EventKeys |->
        CASE k = "httpMethod" -> PyStr("GET") [] k = "path" -> PyStr("/ping")
          [] k = "body" -> PyStr("{}")])

\* What json.loads gives back for a value json.dumps accepted: the value
\* itself, except that a tuple comes back as a list.
Decoded(v) == IF v.t = "tuple" THEN [t |-> "list", s |-> v.s] ELSE v

C9_SingleConstruction ==
    /\ lpc = "init" => configCalls = 0 /\ createCalls = 0 /\ app = 0
    /\ lpc = "ready" => configCalls = 1 /\ createCalls = 1 /\ app = 1
    /\ Invoked => lpc = "ready" /\ usedHandle = app

\* A second invocation, ending in a 500, on the handle built at load.
C9_Witness ==
    /\ nInvocations >= 2
    /\ outcome.kind = "return" /\ Status = 500
    /\ usedHandle = 1 /\ createCalls = 1 /\ configCalls = 1

(***************************************************************************)
(* Claims about setup_aws_region, under SpecRegion.                        *)
(***************************************************************************)
Calls == DOMAIN regionLog
RegionUnset(e) == ~Truthy(e["AWS_DEFAULT_REGION"]) /\ ~Truthy(e["AWS_REGION"])

\* C3: with AWS_DEFAULT_REGION set to a non-empty value the call returns that
\* value verbatim, never runs the env_config import, ignores AWS_REGION and
\* leaves every environment variable as it was.
C3_DefaultRegionWins ==
    \A i \in Calls :
        LET c == regionLog[i]
        IN  Truthy(c.before["AWS_DEFAULT_REGION"]) =>
                /\ c.result = RegionReturned(c.before["AWS_DEFAULT_REGION"])
                /\ ~c.imported
                /\ ~c.wrote
                /\ c.after = c.before
                /\ env = c.before

\* Both variables set to different regions: AWS_DEFAULT_REGION was returned.
C3_Witness ==
    /\ Len(regionLog) >= 1
    /\ regionLog[1].before["AWS_DEFAULT_REGION"] = "eu-west-1"
    /\ regionLog[1].before["AWS_REGION"] = "ap-south-1"
    /\ regionLog[1].result = RegionReturned("eu-west-1")
    /\ envConfig.value = PyStr("eu-central-1")

\* C4 as stated: with neither variable set (or both empty), a missing
\* env_config or one without AWS_REGION gives 'us-east-1' and no exception;
\* an env_config.AWS_REGION that exists is returned instead of the default.
C4_Original ==
    \A i \in Calls :
        LET c == regionLog[i]
        IN  RegionUnset(c.before) =>
                /\ c.result.kind = "return"
                /\ (~envConfig.module \/ envConfig.value = Absent)
                       => c.result.value = DefaultRegion
                /\ (envConfig.module /\ envConfig.value # Absent)
                       => PyStr(c.result.value) = envConfig.value

\* C5 as stated: whenever a call returns a region r, AWS_DEFAULT_REGION
\* equals r in the environment the call leaves.
C5_Original ==
    \A i \in Calls :
        LET c == regionLog[i]
        IN  c.result.kind = "return" => c.after["AWS_DEFAULT_REGION"] = c.result.value

\* C10 as stated: only the first call can write AWS_DEFAULT_REGION, every
\* later call writes nothing, and all calls return what the first returned.
C10_Original ==
    \A i \in Calls :
        i > 1 => /\ ~regionLog[i].wrote
                 /\ regionLog[i].after = regionLog[i].before
                 /\ regionLog[i].result = regionLog[1].result

\* C10 amended: when the first call returns a non-empty region, every later
\* call writes nothing, leaves the environment alone and returns the same
\* region; when it returns '' (env_config.AWS_REGION = '' with no region
\* variable set) every call assigns AWS_DEFAULT_REGION = '' again and
\* returns '' again.
C10_Amended ==
    Len(regionLog) >= 1 =>
        LET first == regionLog[1].result
        IN  /\ (first.kind = "return" /\ first.value # "") =>
                  \A i \in Calls :
                      i > 1 => /\ ~regionLog[i].wrote
                               /\ regionLog[i].after = regionLog[i].before
                               /\ regionLog[i].result = first
            /\ (first.kind = "return" /\ first.value = "") =>
                  /\ envConfig.value = PyStr("")
                  /\ \A i \in Calls :
                         /\ regionLog[i].wrote
                         /\ regionLog[i].imported
                         /\ regionLog[i].after["AWS_DEFAULT_REGION"] = ""
                         /\ regionLog[i].result = first
            /\ \A i \in Calls :
                   regionLog[i].after["AWS_REGION"] = regionLog[1].before["AWS_REGION"]

\* The first call wrote the default, the later ones read it back.
C10_Witness ==
    /\ Len(regionLog) >= 3
    /\ regionLog[1].wrote /\ regionLog[1].result = RegionReturned(DefaultRegion)
    /\ ~regionLog[2].wrote /\ regionLog[2].result = RegionReturned(DefaultRegion)
    /\ ~regionLog[3].wrote /\ regionLog[3].result = RegionReturned(DefaultRegion)

(***************************************************************************)
(* Claims about main(), under SpecMain.                                    *)
(***************************************************************************)
MainOrder == <<"setup_aws_credentials", "setup_aws_region", "create_app", "app.run">>

\* C6: setup_aws_credentials settles on AWS_PROFILE, then on the
\* AWS_ACCESS_KEY_ID/AWS_SECRET_ACCESS_KEY pair (both needed), then on the
\* credentials file; it returns True at the first source found and False with
\* a warning and no exception when there is none; main() then goes on to
\* setup_aws_region, create_app and app.run in that order whatever it returned:
\* no run of main() ends at the credential check.
C6_CredentialsNeverFatal ==
    /\ mpc # "start" =>
          /\ credsResult.source = "profile" <=> env["AWS_PROFILE"] = "dev"
          /\ credsResult.source = "keys" <=>
                 /\ env["AWS_PROFILE"] = Unset
                 /\ env["AWS_ACCESS_KEY_ID"] = "AKIA"
                 /\ env["AWS_SECRET_ACCESS_KEY"] = "secret"
          /\ credsResult.source = "file" <=>
                 /\ env["AWS_PROFILE"] = Unset
                 /\ (env["AWS_ACCESS_KEY_ID"] = Unset \/ env["AWS_SECRET_ACCESS_KEY"] = Unset)
                 /\ credsFile
          /\ credsResult.returned <=> credsResult.source \in {"profile", "keys", "file"}
          /\ credsResult.warned <=> ~credsResult.returned
          /\ ~credsResult.raised
    /\ Len(callLog) <= Len(MainOrder)
    /\ \A i \in DOMAIN callLog : callLog[i] = MainOrder[i]
    /\ mpc = "start" <=> callLog = <<>>
    /\ mpc = "region" <=> callLog = <<"setup_aws_credentials">>
    /\ mpc = "crashed" => Len(callLog) >= 2 /\ mainExc # NoExc
    /\ mpc = "serving" => callLog = MainOrder /\ mainExc = NoExc

\* No credentials anywhere, a warning, and the server was started all the same.
C6_Witness ==
    /\ mpc = "serving"
    /\ ~credsResult.returned /\ credsResult.warned
    /\ callLog = MainOrder

(***************************************************************************)
(* Claims about the smoke-test harness, under SpecHarness.                 *)
(***************************************************************************)
AllPassed == Len(results) = NumChecks /\ \A i \in DOMAIN results : results[i]

\* C7: the harness reports passed/total over its five checks, exits with
\* status 0 only when all of them passed (passed = total), and exits with a
\* non-zero status whenever at least one check returned a failing result.
C7_ExitStatus ==
    /\ reported.printed =>
          /\ hpc = "exited"
          /\ reported.total = NumChecks
          /\ Len(results) = NumChecks
          /\ reported.passed = Cardinality({i \in DOMAIN results : results[i]})
    /\ hpc = "exited" =>
          /\ exitStatus = 0 =>
                reported.printed /\ reported.passed = reported.total /\ AllPassed
          /\ (\E i \in DOMAIN results : ~results[i]) => exitStatus # 0
          /\ AllPassed => exitStatus = 0
    /\ hpc # "exited" => exitStatus = -1

\* Four of five checks passed: "4/5" is reported and the exit status is 1.
C7_Witness ==
    /\ hpc = "exited"
    /\ reported = [printed |-> TRUE, passed |-> 4, total |-> 5]
    /\ exitStatus = 1
    /\ ~results[1]

\* C8 as stated: whatever one check does (returns False, meets an exception
\* of the library, load_env_config raising or returning a value that is not a
\* string), all five checks run, each gives a boolean, and the summary is
\* reported.
C8_Original ==
    hpc = "exited" =>
        /\ Len(results) = NumChecks
        /\ \A i \in DOMAIN results : results[i] \in BOOLEAN
        /\ reported.printed
====
